---- MODULE Spec2Model ----
(***************************************************************************)
(* Hotel booking backend: the Redis distributed lock (utils/redisLock.ts), *)
(* the Redis availability cache (config/redis.ts) and the booking service  *)
(* (services/bookingService.ts) that composes them.                        *)
(*                                                                         *)
(* Each request is one process.  A step of a process is one round trip to  *)
(* Redis or MongoDB (one `await`); the synchronous code between two awaits *)
(* belongs to the step that precedes it.  Redis executes SET NX EX and the *)
(* release script atomically, MongoDB executes one find / insertOne        *)
(* atomically.  Nothing bounds the time between two steps of a process.    *)
(*                                                                         *)
(* Time.  Redis TTLs are counted in ticks, TicksPerMinute to the minute; dates    *)
(* (check-in, check-out, new Date()) are counted in half days.             *)
(***************************************************************************)
EXTENDS Integers, Sequences, FiniteSets, TLC

\* ----------------------------------------------------------------- bounds
\* Ticks of the Redis clock in one minute, and how many failures (a Redis or
\* MongoDB command that throws, a lost Redis connection) one run injects.
TicksPerMinute == 2
MaxFaults == 1

\* The concurrent requests.
Procs == {1, 2}

\* ------------------------------------------------------ program constants
\* One day, 1000 * 60 * 60 * 24 ms, in half days.
DayUnits == 2
\* createBookingSchema: "Booking cannot exceed 30 days"
MaxBookingDays == 30

VARIABLES
  now,        \* new Date(), in half days
  faults,     \* failures injected so far
  connected,  \* RedisConnection.isConnected && client.isReady
  kv,         \* Redis keys under lock:*  : key -> [value, ttl]
  cache,      \* Redis keys under room:availability:* : key -> [isAvailable, ttl]
  rooms,      \* MongoDB rooms collection: roomId -> room document or NoRoom
  bookings,   \* MongoDB bookings collection: a set of booking documents
  pc,         \* where each request is
  req,        \* ICreateBooking of the request
  lockKey,    \* RedisLock.lockKey
  lockValue,  \* RedisLock.lockValue
  given,      \* the LockOptions handed to the RedisLock constructor
  options,    \* RedisLock.options
  attempt,    \* the loop variable of acquire
  lastSet,    \* what the latest client.set of the request did
  setCalls,   \* how many client.set calls the request has made
  acquired,   \* what acquire() returned ("true", "false") or that it threw
  released,   \* what release() returned, once called
  releaseSaw, \* the owner value the release script found under the key (0: none)
  fnResult,   \* how fn ended, once it has
  outcome,    \* what the caller of withLock observes
  errors,     \* IBookingValidation.errors of the request
  totalAmount, \* the price computed for the request
  returned,   \* the booking createBooking returned
  candidate,  \* the room and interval of the latest conflict query run on its own
  reported,   \* what that query returned
  op,         \* the confirm, cancel or update call that has written and not yet returned
  opResult,   \* how the latest confirm, cancel or update call ended
  got,        \* the latest call of a cache utility of RedisConnection, and its result
  chk         \* checkRoomAvailability's closure for one room: where it is, what it holds

lockVars == <<lockKey, lockValue, given, options, attempt, lastSet, setCalls,
              acquired, released, releaseSaw>>
callVars == <<pc, req, fnResult, outcome, errors, totalAmount, returned>>
dbVars == <<rooms, bookings>>
opVars == <<op, opResult>>
cacheVars == <<got, chk>>
queryVars == <<candidate, reported, opVars, cacheVars>>
vars == <<now, faults, connected, kv, cache, dbVars, lockVars, callVars, queryVars>>

\* ------------------------------------------------------------ Redis store
NoKey == <<>>
NoOptions == [f \in {} |-> 0]
EmptyStore == [k \in {} |-> 0]

Put(store, k, v) == [x \in DOMAIN store \cup {k} |-> IF x = k THEN v ELSE store[x]]
Del(store, ks) == [x \in DOMAIN store \ ks |-> store[x]]

\* EX seconds, in ticks (rounded up: a key never expires early by rounding).
TicksOf(seconds) == (seconds * TicksPerMinute + 59) \div 60

\* client.set(key, value, {NX: true, EX: ttl}): "OK" and the key written when the
\* key is absent, null and nothing written when it is present.
SetOverwrite(store, k, value, ttl) == Put(store, k, [value |-> value, ttl |-> TicksOf(ttl)])
SetNoExpiry(store, k, value, ttl) ==
  IF k \in DOMAIN store THEN store ELSE Put(store, k, [value |-> value, ttl |-> 0])
SetNxEx(store, k, value, ttl) ==
  IF k \in DOMAIN store THEN store
  ELSE Put(store, k, [value |-> value, ttl |-> TicksOf(ttl)])
SetNxExReply(store, k) == IF k \in DOMAIN store THEN "null" ELSE "OK"

\* The release script: DEL the key when GET key == ARGV[1], else 0.
EvalDeleteAlways(store, k, value) == Del(store, {k})
EvalCompareOnly(store, k, value) == store
EvalCompareAndDelete(store, k, value) ==
  IF k \in DOMAIN store /\ store[k].value = value THEN Del(store, {k}) ELSE store
EvalReply(store, k, value) ==
  IF k \in DOMAIN store /\ store[k].value = value THEN 1 ELSE 0
\* redis.call("GET", KEYS[1]) inside the script (0: no such key)
EvalGet(store, k) == IF k \in DOMAIN store THEN store[k].value ELSE 0

\* JSON.stringify({isAvailable, timestamp}), as the tokens of the text, and
\* JSON.parse of such a text.
JsonStringify(data) == <<"isAvailable", data.isAvailable, "timestamp", data.timestamp>>
JsonParse(text) == [isAvailable |-> text[2], timestamp |-> text[4]]

\* client.setEx(key, seconds, text), seconds > 0
SetExForever(store, k, text, seconds) == Put(store, k, [value |-> text, ttl |-> 0])
SetEx(store, k, text, seconds) == Put(store, k, [value |-> text, ttl |-> TicksOf(seconds)])

\* Passive expiry: one tick passes for every key that has a TTL (ttl 0: none).
Aged(store) ==
  LET live == {k \in DOMAIN store : store[k].ttl # 1}
  IN  [k \in live |-> IF store[k].ttl = 0 THEN store[k]
                      ELSE [store[k] EXCEPT !.ttl = @ - 1]]

\* ------------------------------------------------------- RedisLock object
\* `options.x || d`: d when x is undefined or 0.
OrDefault(o, f, d) == IF f \in DOMAIN o /\ o[f] # 0 THEN o[f] ELSE d

RedisLockOptions(o) ==
  [ttl |-> OrDefault(o, "ttl", 30),
   retryDelay |-> OrDefault(o, "retryDelay", 100),
   maxRetries |-> OrDefault(o, "maxRetries", 3)]

RedisLockKey(key) == <<"lock">> \o key

\* withLock: fn runs only when acquire returned true.
WithLockIgnoresAcquire(acq) == acq \in {"true", "false"}
WithLockNeverWaits(acq) == TRUE
WithLockFallsBack(acq) == acq \in {"true", "error"}
WithLockProceeds(acq) == acq = "true"

\* withLock: `finally` releases however fn ended.
ReleaseOnSuccessOnly(result) == result = "ok"
ReleaseOnExit(result) == TRUE

\* The catch block of acquire rethrows on the last attempt and only there.
CatchReturnsFalse(a, maxRetries) == FALSE
CatchRethrows(a, maxRetries) == a = maxRetries

\* The loop of acquire retries while attempt < maxRetries.
RetriesLeft(a, maxRetries) == a < maxRetries

\* release(): false when Redis is not connected or eval throws, else whether the
\* script deleted the key.  It has no path that throws.
ReleaseIgnoresReply(ran, reply) == IF ran THEN "true" ELSE "false"
ReleaseThrows(ran, reply) == IF ~ran THEN "threw" ELSE IF reply = 1 THEN "true" ELSE "false"
ReleaseResult(ran, reply) == IF ran /\ reply = 1 THEN "true" ELSE "false"

\* try { return await fn() } finally { await this.release() }: an exception
\* leaving the finally block would replace fn's result.
WithLockOutcome(result, rel) == IF rel = "threw" THEN "releaseError" ELSE result

\* -------------------------------------------------------------------- Init
NoRequest == [roomId |-> "", checkInDate |-> 0, checkOutDate |-> 0, numberOfGuests |-> 0]
NoRoom == [exists |-> FALSE, isActive |-> FALSE, maxOccupancy |-> 0, basePrice |-> 0]
Room(active, occupancy, price) ==
  [exists |-> TRUE, isActive |-> active, maxOccupancy |-> occupancy, basePrice |-> price]

RoomIds == {"R1", "R2"}
InitialRooms == [r \in RoomIds |-> IF r = "R1" THEN Room(TRUE, 2, 100) ELSE NoRoom]
\* The same hotel with its room taken out of service and refitted for one guest.
ClosedRooms == [r \in RoomIds |-> IF r = "R1" THEN Room(FALSE, 1, 100) ELSE NoRoom]

NoReport == [by |-> "none", exclude |-> 0, conflicts |-> {}]
NoOp == [kind |-> "none", id |-> 0, roomId |-> "", routine |-> "none"]
NoResult == [kind |-> "none", id |-> 0, result |-> "none"]
NoCall == [call |-> "none", roomId |-> "", checkIn |-> 0, checkOut |-> 0,
           isAvailable |-> FALSE, ttl |-> 0, ready |-> FALSE, keys |-> 0, result |-> "none"]
NoCheck == [stage |-> "none", roomId |-> "", checkIn |-> 0, checkOut |-> 0, exclude |-> 0,
            cached |-> "null", isAvailable |-> FALSE, conflictingBookings |-> {}]
NoQuery ==
  /\ candidate = NoRequest /\ reported = NoReport
  /\ op = NoOp /\ opResult = NoResult
  /\ got = NoCall /\ chk = NoCheck

NoBooking == [_id |-> 0]

IdleProcs ==
  /\ pc = [p \in Procs |-> "idle"]
  /\ req = [p \in Procs |-> NoRequest]
  /\ lockKey = [p \in Procs |-> NoKey]
  /\ lockValue = [p \in Procs |-> 0]
  /\ given = [p \in Procs |-> NoOptions]
  /\ options = [p \in Procs |-> RedisLockOptions(NoOptions)]
  /\ attempt = [p \in Procs |-> 0]
  /\ lastSet = [p \in Procs |-> "none"]
  /\ setCalls = [p \in Procs |-> 0]
  /\ acquired = [p \in Procs |-> "none"]
  /\ released = [p \in Procs |-> "none"]
  /\ releaseSaw = [p \in Procs |-> 0]
  /\ fnResult = [p \in Procs |-> "none"]
  /\ outcome = [p \in Procs |-> "none"]
  /\ errors = [p \in Procs |-> <<>>]
  /\ totalAmount = [p \in Procs |-> 0]
  /\ returned = [p \in Procs |-> NoBooking]

LockInit ==
  /\ now = 2
  /\ faults = 0
  /\ connected = TRUE
  /\ kv = EmptyStore
  /\ cache = EmptyStore
  /\ rooms = InitialRooms
  /\ bookings = {}
  /\ IdleProcs
  /\ NoQuery

\* ------------------------------------------------------ RedisLock actions
\* Whether the next Redis or MongoDB command may throw.
FaultChoices == IF faults < MaxFaults THEN BOOLEAN ELSE {FALSE}
Injected(threw) == faults' = IF threw THEN faults + 1 ELSE faults

\* new RedisLock(key, o): the key is prefixed, the value is
\* `${Date.now()}-${Math.random().toString(36).substr(2, 9)}`, one per
\* instance; every request builds one instance, so the request's number stands
\* for the value.
Construct(p, key, o) ==
  /\ lockKey' = [lockKey EXCEPT ![p] = RedisLockKey(key)]
  /\ lockValue' = [lockValue EXCEPT ![p] = p]
  /\ given' = [given EXCEPT ![p] = o]
  /\ options' = [options EXCEPT ![p] = RedisLockOptions(o)]

\* acquire() has returned `result` or thrown ("error") inside withLock.
AcquireEnds(p, result) ==
  /\ acquired' = [acquired EXCEPT ![p] = result]
  /\ IF WithLockProceeds(result)
     THEN /\ pc' = [pc EXCEPT ![p] = "fn"]
          /\ outcome' = outcome
     ELSE /\ pc' = [pc EXCEPT ![p] = "done"]
          /\ outcome' = [outcome EXCEPT
               ![p] = IF result = "error" THEN "lockError" ELSE "lockFailed"]

\* acquire() up to its first await: it throws when Redis is not connected.
BeginAcquire(p) ==
  IF connected
  THEN /\ pc' = [pc EXCEPT ![p] = "attempt"]
       /\ UNCHANGED <<acquired, outcome>>
  ELSE AcquireEnds(p, "error")

\* One pass of the loop of acquire: client.set, then the code up to the sleep.
Attempt(p) ==
  /\ pc[p] = "attempt"
  /\ setCalls' = [setCalls EXCEPT ![p] = @ + 1]
  /\ \E threw \in FaultChoices :
       /\ Injected(threw)
       /\ IF threw
          THEN /\ lastSet' = [lastSet EXCEPT ![p] = "threw"]
               /\ kv' = kv
               /\ IF CatchRethrows(attempt[p], options[p].maxRetries)
                  THEN AcquireEnds(p, "error")
                  ELSE /\ pc' = [pc EXCEPT ![p] = "sleep"]
                       /\ UNCHANGED <<acquired, outcome>>
          ELSE /\ lastSet' = [lastSet EXCEPT ![p] = SetNxExReply(kv, lockKey[p])]
               /\ kv' = SetNxEx(kv, lockKey[p], lockValue[p], options[p].ttl)
               /\ IF SetNxExReply(kv, lockKey[p]) = "OK"
                  THEN AcquireEnds(p, "true")
                  ELSE IF RetriesLeft(attempt[p], options[p].maxRetries)
                       THEN /\ pc' = [pc EXCEPT ![p] = "sleep"]
                            /\ UNCHANGED <<acquired, outcome>>
                       ELSE AcquireEnds(p, "false")
  /\ UNCHANGED <<queryVars, now, connected, cache, dbVars, lockKey, lockValue, given, options,
                 attempt, released, releaseSaw, req, fnResult, errors, totalAmount, returned>>

\* sleep(retryDelay) is over: attempt++ and the loop test.
Wake(p) ==
  /\ pc[p] = "sleep"
  /\ attempt' = [attempt EXCEPT ![p] = @ + 1]
  /\ IF attempt[p] + 1 <= options[p].maxRetries
     THEN /\ pc' = [pc EXCEPT ![p] = "attempt"]
          /\ UNCHANGED <<acquired, outcome>>
     ELSE AcquireEnds(p, "false")
  /\ UNCHANGED <<queryVars, now, faults, connected, kv, cache, dbVars, lockKey, lockValue, given, options,
                 lastSet, setCalls, released, releaseSaw, req, fnResult, errors, totalAmount, returned>>

\* fn has returned or thrown inside withLock.
FnEnds(p, result) ==
  /\ fnResult' = [fnResult EXCEPT ![p] = result]
  /\ IF ReleaseOnExit(result)
     THEN /\ pc' = [pc EXCEPT ![p] = "release"]
          /\ outcome' = outcome
     ELSE /\ pc' = [pc EXCEPT ![p] = "done"]
          /\ outcome' = [outcome EXCEPT ![p] = result]

\* release() in the finally block of withLock, then withLock ends as fn did.
Release(p) ==
  /\ pc[p] = "release"
  /\ \E threw \in FaultChoices :
       LET ran == connected /\ ~threw
           reply == IF ran THEN EvalReply(kv, lockKey[p], lockValue[p]) ELSE 0
       IN  /\ Injected(threw)
           /\ kv' = IF ran THEN EvalCompareAndDelete(kv, lockKey[p], lockValue[p]) ELSE kv
           /\ released' = [released EXCEPT ![p] = ReleaseResult(ran, reply)]
           /\ releaseSaw' = [releaseSaw EXCEPT
                ![p] = IF ran THEN EvalGet(kv, lockKey[p]) ELSE 0]
           /\ outcome' = [outcome EXCEPT
                ![p] = WithLockOutcome(fnResult[p], ReleaseResult(ran, reply))]
  /\ pc' = [pc EXCEPT ![p] = "done"]
  /\ UNCHANGED <<queryVars, now, connected, cache, dbVars, lockKey, lockValue, given, options,
                 attempt, lastSet, setCalls, acquired, req, fnResult, errors, totalAmount, returned>>

\* ------------------------------------------------------------ environment
\* One tick passes at the Redis server.
Tick ==
  /\ kv' = Aged(kv)
  /\ cache' = Aged(cache)
  /\ <<kv', cache'>> # <<kv, cache>>
  /\ UNCHANGED <<queryVars, now, faults, connected, dbVars, lockVars, callVars>>

\* The client's "end" and "ready" events.
Disconnect ==
  /\ connected
  /\ faults < MaxFaults
  /\ faults' = faults + 1
  /\ connected' = FALSE
  /\ UNCHANGED <<queryVars, now, kv, cache, dbVars, lockVars, callVars>>

Reconnect ==
  /\ ~connected
  /\ connected' = TRUE
  /\ UNCHANGED <<queryVars, now, faults, kv, cache, dbVars, lockVars, callVars>>

\* ------------------------------------------- RedisLock under any options
TestKeys == {<<"k1">>, <<"k2">>}
TestOptions == {[maxRetries |-> 0], [maxRetries |-> 1, ttl |-> 60]}

\* new RedisLock(key, o).withLock(fn)
WithLock(p) ==
  /\ pc[p] = "idle"
  /\ \E key \in TestKeys, o \in TestOptions : Construct(p, key, o)
  /\ BeginAcquire(p)
  /\ UNCHANGED <<queryVars, now, faults, connected, kv, cache, dbVars, attempt, lastSet, setCalls,
                 released, releaseSaw, req, fnResult, errors, totalAmount, returned>>

\* fn() of withLock returns or throws.
RunFn(p) ==
  /\ pc[p] = "fn"
  /\ \E result \in {"ok", "fnError"} : FnEnds(p, result)
  /\ UNCHANGED <<queryVars, now, faults, connected, kv, cache, dbVars, lockVars, req, errors, totalAmount, returned>>

LockNext ==
  \/ \E p \in Procs : WithLock(p) \/ Attempt(p) \/ Wake(p) \/ RunFn(p) \/ Release(p)
  \/ Tick
  \/ Disconnect
  \/ Reconnect

SpecLock == LockInit /\ [][LockNext]_vars

LiveSpecLock == SpecLock /\ WF_vars(Tick)

\* ------------------------------------------------------------ the booking
\* Date.toISOString(): the calendar day and the time of day, to the millisecond.
ToISOString(d) == [date |-> d \div DayUnits, time |-> d % DayUnits]

\* createBookingLock: `booking:${roomId}:${checkIn.toISOString()}_${checkOut.toISOString()}`
BookingLockNameByRoom(roomId, checkIn, checkOut) == <<"booking", roomId>>
BookingLockName(roomId, checkIn, checkOut) ==
  <<"booking", roomId, ToISOString(checkIn), ToISOString(checkOut)>>
BookingLockOptions == [ttl |-> 60, retryDelay |-> 200, maxRetries |-> 5]

\* Math.ceil(n / d), d > 0
Ceil(n, d) == -((-n) \div d)
TotalNightsFloor(checkIn, checkOut) == (checkOut - checkIn) \div DayUnits
TotalNights(checkIn, checkOut) == Ceil(checkOut - checkIn, DayUnits)

ActiveConfirmedOnly == {"confirmed"}
Active == {"pending", "confirmed"}

\* find({roomId, status: {$in: [PENDING, CONFIRMED]},
\*       checkInDate: {$lt: checkOut}, checkOutDate: {$gt: checkIn}})
ConflictingBookingsClosed(docs, roomId, checkIn, checkOut) ==
  {b \in docs : /\ b.roomId = roomId
                /\ b.status \in Active
                /\ b.checkInDate <= checkOut
                /\ b.checkOutDate >= checkIn}
ConflictingBookingsCached(docs, roomId, checkIn, checkOut) ==
  LET k == <<"room", "availability", roomId, ToISOString(checkIn), ToISOString(checkOut)>>
  IN  IF k \in DOMAIN cache /\ JsonParse(cache[k].value).isAvailable THEN {}
      ELSE {b \in docs : /\ b.roomId = roomId
                         /\ b.status \in Active
                         /\ b.checkInDate < checkOut
                         /\ b.checkOutDate > checkIn}
ConflictingBookings(docs, roomId, checkIn, checkOut) ==
  {b \in docs : /\ b.roomId = roomId
                /\ b.status \in Active
                /\ b.checkInDate < checkOut
                /\ b.checkOutDate > checkIn}

\* validateBooking, the checks before the room is read
BasicErrors(r, today) ==
  (IF r.checkInDate >= r.checkOutDate
     THEN <<"Check-in date must be before check-out date">> ELSE <<>>)
  \o (IF r.checkInDate < today THEN <<"Check-in date cannot be in the past">> ELSE <<>>)
  \o (IF r.numberOfGuests <= 0 THEN <<"Number of guests must be greater than 0">> ELSE <<>>)

\* validateBooking, the checks on the room document
RoomErrors(r, room) ==
  IF ~room.exists THEN <<"Room not found">>
  ELSE (IF ~room.isActive THEN <<"Room is not available for booking">> ELSE <<>>)
       \o (IF r.numberOfGuests > room.maxOccupancy
             THEN <<"Number of guests exceeds room capacity">> ELSE <<>>)

\* `isValid: errors.length === 0`, and `if (!validation.isValid) throw`
AlwaysValid(errs) == TRUE
IsValid(errs) == errs = <<>>

NoConflictErrors(conflicts) == <<>>
ConflictErrors(conflicts) ==
  IF conflicts # {} THEN <<"Room is not available for the selected dates">> ELSE <<>>

NewBookingConfirmed(p, r, amount) ==
  [_id |-> p, userId |-> p, roomId |-> r.roomId, checkInDate |-> r.checkInDate,
   checkOutDate |-> r.checkOutDate, numberOfGuests |-> r.numberOfGuests,
   totalAmount |-> amount, status |-> "confirmed"]
NewBooking(p, r, amount) ==
  [_id |-> p, userId |-> p, roomId |-> r.roomId, checkInDate |-> r.checkInDate,
   checkOutDate |-> r.checkOutDate, numberOfGuests |-> r.numberOfGuests,
   totalAmount |-> amount, status |-> "pending"]

\* `room:availability:${roomId}:${dateRange}`
CacheKey(roomId, checkIn, checkOut) ==
  <<"room", "availability", roomId, ToISOString(checkIn), ToISOString(checkOut)>>

\* redis.invalidateRoomCache: scan `room:availability:${roomId}:*`, del the keys
InvalidateRoomCacheNoScan(store, roomId) ==
  Del(store, {k \in DOMAIN store : k = <<"room", "availability", roomId, "*">>})
InvalidateRoomCache(store, roomId) ==
  Del(store, {k \in DOMAIN store : k[1] = "room" /\ k[2] = "availability" /\ k[3] = roomId})

Request(r, checkIn, checkOut, guests) ==
  [roomId |-> r, checkInDate |-> checkIn, checkOutDate |-> checkOut, numberOfGuests |-> guests]

\* The request bodies tried: a stay, one that overlaps it, one that starts when it
\* ends (a night and a half), one of no night in the past for no guest, and one
\* for a room that does not exist.
Requests ==
  {Request("R1", 2, 6, 1), Request("R1", 4, 8, 2), Request("R1", 6, 9, 1),
   Request("R1", 1, 1, 0), Request("R2", 2, 6, 1)}

\* An entry checkRoomAvailability wrote for R1 before any booking existed, about
\* to expire.
InitialCache ==
  Put(EmptyStore, CacheKey("R1", 2, 6),
      [value |-> JsonStringify([isAvailable |-> TRUE, timestamp |-> 2]), ttl |-> 1])

Init ==
  /\ now = 2
  /\ faults = 0
  /\ connected = TRUE
  /\ kv = EmptyStore
  /\ cache = InitialCache
  /\ rooms \in {InitialRooms, ClosedRooms}
  /\ bookings = {}
  /\ IdleProcs
  /\ NoQuery

\* createBooking up to the first await of acquire.
CallCreateBooking(p, r) ==
  /\ req' = [req EXCEPT ![p] = r]
  /\ Construct(p, BookingLockName(r.roomId, r.checkInDate, r.checkOutDate),
               BookingLockOptions)
  /\ BeginAcquire(p)
  /\ UNCHANGED <<queryVars, now, faults, connected, kv, cache, dbVars, attempt, lastSet, setCalls,
                 released, releaseSaw, fnResult, errors, totalAmount, returned>>

\* bookingService.createBooking(userId, bookingData), for any of the bodies tried
CreateBooking(p) ==
  /\ pc[p] = "idle"
  /\ \E r \in Requests : CallCreateBooking(p, r)

\* validateBooking: the basic checks and roomsCollection.findOne
ValidateRoom(p) ==
  /\ pc[p] = "fn"
  /\ LET room == rooms[req[p].roomId]
         found == BasicErrors(req[p], now) \o RoomErrors(req[p], room)
     IN  /\ errors' = [errors EXCEPT ![p] = found]
         /\ IF room.exists
            THEN /\ pc' = [pc EXCEPT ![p] = "conflicts"]
                 /\ UNCHANGED <<fnResult, outcome>>
            ELSE FnEnds(p, "invalid")
  /\ UNCHANGED <<queryVars, now, faults, connected, kv, cache, dbVars, lockVars, req, totalAmount, returned>>

\* validateBooking: bookingsCollection.find of the conflicts, and the throw of
\* createBooking when the validation failed
ValidateConflicts(p) ==
  /\ pc[p] = "conflicts"
  /\ LET r == req[p]
         found == errors[p] \o ConflictErrors(
                    ConflictingBookings(bookings, r.roomId, r.checkInDate, r.checkOutDate))
     IN  /\ errors' = [errors EXCEPT ![p] = found]
         /\ IF IsValid(found)
            THEN /\ pc' = [pc EXCEPT ![p] = "findRoom"]
                 /\ UNCHANGED <<fnResult, outcome>>
            ELSE FnEnds(p, "invalid")
  /\ UNCHANGED <<queryVars, now, faults, connected, kv, cache, dbVars, lockVars, req, totalAmount, returned>>

\* createBooking: roomsCollection.findOne for the price
FindRoom(p) ==
  /\ pc[p] = "findRoom"
  /\ LET room == rooms[req[p].roomId]
     IN  IF room.exists
         THEN /\ totalAmount' = [totalAmount EXCEPT
                   ![p] = room.basePrice * TotalNights(req[p].checkInDate, req[p].checkOutDate)]
              /\ pc' = [pc EXCEPT ![p] = "insert"]
              /\ UNCHANGED <<fnResult, outcome>>
         ELSE /\ totalAmount' = totalAmount
              /\ FnEnds(p, "roomNotFound")
  /\ UNCHANGED <<queryVars, now, faults, connected, kv, cache, dbVars, lockVars, req, errors,
                 returned>>

\* createBooking: bookingsCollection.insertOne, which may throw
Insert(p) ==
  /\ pc[p] = "insert"
  /\ \E threw \in FaultChoices :
       /\ Injected(threw)
       /\ IF threw
          THEN /\ bookings' = bookings
               /\ FnEnds(p, "persistError")
          ELSE /\ bookings' = bookings \cup {NewBooking(p, req[p], totalAmount[p])}
               /\ pc' = [pc EXCEPT ![p] = "invalidate"]
               /\ UNCHANGED <<fnResult, outcome>>
  /\ UNCHANGED <<queryVars, now, connected, kv, cache, rooms, lockVars, req, errors, totalAmount, returned>>

\* createBooking: the cache invalidation, whose failure is swallowed, and the return
Invalidate(p) ==
  /\ pc[p] = "invalidate"
  /\ \E threw \in FaultChoices :
       /\ Injected(threw)
       /\ cache' = IF connected /\ ~threw THEN InvalidateRoomCache(cache, req[p].roomId)
                   ELSE cache
  /\ returned' = [returned EXCEPT ![p] = NewBooking(p, req[p], totalAmount[p])]
  /\ FnEnds(p, "ok")
  /\ UNCHANGED <<queryVars, now, connected, kv, dbVars, lockVars, req, errors, totalAmount>>

\* RoomService.deleteRoom: refused while the room has active bookings that have
\* not ended.
DeleteRoom(r) ==
  /\ rooms[r].exists
  /\ {b \in bookings : b.roomId = r /\ b.status \in Active /\ b.checkOutDate >= now} = {}
  /\ rooms' = [rooms EXCEPT ![r] = NoRoom]
  /\ UNCHANGED <<queryVars, now, faults, connected, kv, cache, bookings, lockVars, callVars>>

Next ==
  \/ \E p \in Procs : CreateBooking(p) \/ Attempt(p) \/ Wake(p)
  \/ \E p \in Procs : ValidateRoom(p) \/ ValidateConflicts(p) \/ FindRoom(p)
  \/ \E p \in Procs : Insert(p) \/ Invalidate(p) \/ Release(p)
  \/ \E r \in RoomIds : DeleteRoom(r)
  \/ Tick
  \/ Disconnect
  \/ Reconnect

Spec == Init /\ [][Next]_vars

\* -------------------------------------------------- POST /bookings, the route
Abs(n) == IF n < 0 THEN -n ELSE n

\* createBookingSchema: futureDateSchema on checkInDate, 1..10 guests,
\* checkOutDate > checkInDate, and
\* Math.ceil(Math.abs(checkOut - checkIn) / (1000 * 60 * 60 * 24)) <= 30
CreateBookingSchemaNoLimit(r, today) ==
  /\ r.checkInDate > today
  /\ r.numberOfGuests >= 1 /\ r.numberOfGuests <= 10
  /\ r.checkOutDate > r.checkInDate
CreateBookingSchema(r, today) ==
  /\ r.checkInDate > today
  /\ r.numberOfGuests >= 1 /\ r.numberOfGuests <= 10
  /\ r.checkOutDate > r.checkInDate
  /\ Ceil(Abs(r.checkOutDate - r.checkInDate), DayUnits) <= MaxBookingDays

\* The bodies posted: stays of 30 nights, of 30 nights and a half, of 31 nights
\* and of two nights from tomorrow, one that starts today, one with its dates
\* reversed and one for eleven guests.
Bodies ==
  {Request("R1", 4, 64, 1), Request("R1", 4, 65, 1), Request("R1", 4, 66, 2),
   Request("R1", 4, 8, 1), Request("R1", 2, 6, 1), Request("R1", 8, 4, 1),
   Request("R1", 4, 8, 11)}

\* validateBody(bookingValidators.createBooking), then the controller: a body the
\* schema refuses is answered 400 and createBooking is not called.
PostBooking(p) ==
  /\ pc[p] = "idle"
  /\ \E r \in Bodies :
       IF CreateBookingSchema(r, now)
       THEN CallCreateBooking(p, r)
       ELSE /\ req' = [req EXCEPT ![p] = r]
            /\ pc' = [pc EXCEPT ![p] = "done"]
            /\ outcome' = [outcome EXCEPT ![p] = "validationFailed"]
            /\ UNCHANGED <<queryVars, now, faults, connected, kv, cache, dbVars, lockVars,
                           fnResult, errors, totalAmount, returned>>

\* withLock: `throw new Error(`Failed to acquire lock: ${this.lockKey}`)`
LockFailedError(key) == [name |-> "Error", message |-> <<"Failed to acquire lock: ">> \o key]

\* errorHandler: an error that is no ValidationError, no CastError and has no
\* code 11000 is answered with its own message and status 500.
ErrorHandler(error) ==
  CASE error.name = "ValidationError" -> [statusCode |-> 400, message |-> error.message]
    [] error.name = "CastError" -> [statusCode |-> 400, message |-> <<"Invalid ID format">>]
    [] OTHER -> [statusCode |-> 500, message |-> error.message]

\* The response to a createBooking whose withLock threw for want of the lock.
LockFailedResponse(p) == ErrorHandler(LockFailedError(lockKey[p]))

RouteNext ==
  \/ \E p \in Procs : PostBooking(p) \/ Attempt(p) \/ Wake(p)
  \/ \E p \in Procs : ValidateRoom(p) \/ ValidateConflicts(p) \/ FindRoom(p)
  \/ \E p \in Procs : Insert(p) \/ Invalidate(p) \/ Release(p)
  \/ \E r \in RoomIds : DeleteRoom(r)
  \/ Tick
  \/ Disconnect
  \/ Reconnect

SpecRoute == Init /\ [][RouteNext]_vars

\* ------------------------------------------- the conflict query on its own
\* checkRoomAvailability, a cache miss: the same find, with
\* `...(filter.excludeBookingId && {_id: {$ne: filter.excludeBookingId}})`
\* (exclude 0: no excludeBookingId).
AvailabilityConflicts(docs, roomId, checkIn, checkOut, exclude) ==
  {b \in ConflictingBookings(docs, roomId, checkIn, checkOut) : exclude = 0 \/ b._id # exclude}

BookingStatus == {"pending", "confirmed", "cancelled", "completed"}

StoredBooking(id, roomId, checkIn, checkOut, status) ==
  [_id |-> id, userId |-> id, roomId |-> roomId, checkInDate |-> checkIn,
   checkOutDate |-> checkOut, numberOfGuests |-> 1,
   totalAmount |-> 100 * TotalNights(checkIn, checkOut), status |-> status]

\* The stays tried, as <<checkIn, checkOut>>: [2,6), one that overlaps it, one
\* that starts when it ends and one that ends when it starts.
Stays == {<<2, 6>>, <<4, 8>>, <<6, 9>>, <<1, 2>>}

\* The bookings collections tried: at most one booking of R1 for [2,6) and at
\* most one more booking, each in any status.
StoredFirst == {StoredBooking(1, "R1", 2, 6, st) : st \in BookingStatus}
StoredSecond ==
  {StoredBooking(2, r, s[1], s[2], st) : r \in RoomIds, s \in Stays, st \in BookingStatus}
StoredSets ==
  {{}} \cup {{a} : a \in StoredFirst \cup StoredSecond}
       \cup {{a, b} : a \in StoredFirst, b \in StoredSecond}

ConflictInit ==
  /\ now = 2
  /\ faults = 0
  /\ connected = TRUE
  /\ kv = EmptyStore
  /\ cache = EmptyStore
  /\ rooms = [r \in RoomIds |-> Room(TRUE, 2, 100)]
  /\ bookings \in StoredSets
  /\ IdleProcs
  /\ NoQuery

\* validateBooking's find for a room and a stay
FindConflicts ==
  /\ \E r \in RoomIds, s \in Stays :
       /\ candidate' = Request(r, s[1], s[2], 1)
       /\ reported' = [by |-> "validateBooking", exclude |-> 0,
                       conflicts |-> ConflictingBookings(bookings, r, s[1], s[2])]
  /\ UNCHANGED <<opVars, cacheVars, now, faults, connected, kv, cache, dbVars, lockVars, callVars>>

\* checkRoomAvailability's find for a room and a stay
FindAvailabilityConflicts ==
  /\ \E r \in RoomIds, s \in Stays, exclude \in {0, 1, 2} :
       /\ candidate' = Request(r, s[1], s[2], 1)
       /\ reported' = [by |-> "checkRoomAvailability", exclude |-> exclude,
                       conflicts |-> AvailabilityConflicts(bookings, r, s[1], s[2], exclude)]
  /\ UNCHANGED <<opVars, cacheVars, now, faults, connected, kv, cache, dbVars, lockVars, callVars>>

ConflictNext == FindConflicts \/ FindAvailabilityConflicts

SpecConflict == ConflictInit /\ [][ConflictNext]_vars

\* --------------------------------------- confirm, cancel and update a booking
\* BookingService.invalidateRoomCache: scan `room:availability:*${roomId}*` and
\* `room:availability:search:*`, del the keys.  A room id is 24 hex digits, so
\* within a key it can only be the room id of the key (an ISO date holds none).
InvalidateEveryRoom(store, roomId) ==
  Del(store, {k \in DOMAIN store : k[1] = "room" /\ k[2] = "availability"})
InvalidateRoomCacheOfBooking(store, roomId) ==
  Del(store, {k \in DOMAIN store :
                /\ k[1] = "room" /\ k[2] = "availability"
                /\ k[3] = "search" \/ k[3] = roomId})

\* `room:availability:search:${name}`
SearchKey(name) == <<"room", "availability", "search", name>>

\* findOneAndUpdate({_id}, {$set: updateDoc}): the fields given replace the stored ones
SetFields(b, doc) == [f \in DOMAIN b |-> IF f \in DOMAIN doc THEN doc[f] ELSE b[f]]
FindByIdOrFirst(docs, id) ==
  IF \E b \in docs : b._id = id THEN {b \in docs : b._id = id}
  ELSE {b \in docs : \A c \in docs : b._id <= c._id}
FindById(docs, id) == {b \in docs : b._id = id}
\* confirmBooking's filter: {_id, status: PENDING}
FindAnyStatusById(docs, id) == FindById(docs, id)
FindPendingById(docs, id) == {b \in FindById(docs, id) : b.status = "pending"}
UpdateOne(docs, found, doc) == (docs \ found) \cup {SetFields(b, doc) : b \in found}

\* updateBooking invalidates `if (... && (updateData.checkInDate || updateData.checkOutDate))`
DatesGiven(doc) == "checkInDate" \in DOMAIN doc \/ "checkOutDate" \in DOMAIN doc

\* The booking ids tried (3: no such booking), and the update bodies tried.
BookingIds == {1, 2, 3}
UpdateBodies == {[status |-> st] : st \in BookingStatus} \cup {[checkOutDate |-> 8]}

\* The first await of confirmBooking, cancelBooking, updateBooking: the
\* findOneAndUpdate, and the throw when it matched nothing.
Written(kind, id, found, doc, routine) ==
  IF found = {}
  THEN /\ bookings' = bookings
       /\ op' = NoOp
       /\ opResult' = [kind |-> kind, id |-> id, result |-> "notFound"]
  ELSE /\ bookings' = UpdateOne(bookings, found, doc)
       /\ IF routine = "none"
          THEN /\ op' = NoOp
               /\ opResult' = [kind |-> kind, id |-> id, result |-> "ok"]
          ELSE /\ op' = [kind |-> kind, id |-> id, routine |-> routine,
                         roomId |-> (CHOOSE b \in found : TRUE).roomId]
               /\ opResult' = opResult

ConfirmBooking(id) ==
  /\ op = NoOp
  /\ Written("confirm", id, FindPendingById(bookings, id), [status |-> "confirmed"], "private")
  /\ UNCHANGED <<candidate, reported, cacheVars, now, faults, connected, kv, cache, rooms, lockVars, callVars>>

CancelBooking(id) ==
  /\ op = NoOp
  /\ Written("cancel", id, FindById(bookings, id), [status |-> "cancelled"], "private")
  /\ UNCHANGED <<candidate, reported, cacheVars, now, faults, connected, kv, cache, rooms, lockVars, callVars>>

UpdateBooking(id, doc) ==
  /\ op = NoOp
  /\ Written("update", id, FindById(bookings, id), doc,
             IF connected /\ DatesGiven(doc) THEN "redis" ELSE "none")
  /\ UNCHANGED <<candidate, reported, cacheVars, now, faults, connected, kv, cache, rooms, lockVars, callVars>>

\* The cache invalidation of the call, whose failure is swallowed, and the return.
OpReturn ==
  /\ op # NoOp
  /\ \E threw \in FaultChoices :
       /\ Injected(threw)
       /\ cache' = IF ~connected \/ threw THEN cache
                   ELSE IF op.routine = "redis" THEN InvalidateRoomCache(cache, op.roomId)
                   ELSE InvalidateRoomCacheOfBooking(cache, op.roomId)
  /\ opResult' = [kind |-> op.kind, id |-> op.id, result |-> "ok"]
  /\ op' = NoOp
  /\ UNCHANGED <<candidate, reported, cacheVars, now, connected, kv, dbVars, lockVars, callVars>>

\* The bookings and the cache tried: a booking of R1 for [2,6) in any status and
\* a pending one for [6,9), and cached verdicts for both rooms and for a search.
TwoBookings ==
  {{StoredBooking(1, "R1", 2, 6, a), StoredBooking(2, "R1", 6, 9, "pending")} :
     a \in BookingStatus}
CacheEntry(v, seconds) ==
  [value |-> JsonStringify([isAvailable |-> v, timestamp |-> 2]), ttl |-> TicksOf(seconds)]
FilledCache ==
  Put(Put(Put(EmptyStore, CacheKey("R1", 2, 6), CacheEntry(FALSE, 60)),
          CacheKey("R2", 2, 6), CacheEntry(TRUE, 60)),
      SearchKey("all"), CacheEntry(TRUE, 60))

StatusInit ==
  /\ now = 2
  /\ faults = 0
  /\ connected = TRUE
  /\ kv = EmptyStore
  /\ cache = FilledCache
  /\ rooms = [r \in RoomIds |-> Room(TRUE, 2, 100)]
  /\ bookings \in TwoBookings
  /\ IdleProcs
  /\ NoQuery

StatusNext ==
  \/ \E id \in BookingIds : ConfirmBooking(id) \/ CancelBooking(id)
  \/ \E id \in BookingIds, doc \in UpdateBodies : UpdateBooking(id, doc)
  \/ OpReturn
  \/ Tick
  \/ Disconnect
  \/ Reconnect

SpecStatus == StatusInit /\ [][StatusNext]_vars

\* ------------------------------------------- the cache utilities on their own
\* `boolean | null` as getRoomAvailability returns it
Verdict(b) == IF b THEN "true" ELSE "false"

\* getRoomAvailability: `if (cached) return JSON.parse(cached).isAvailable; return null`
GetRoomAvailabilityReply(store, k) ==
  IF k \in DOMAIN store THEN Verdict(JsonParse(store[k].value).isAvailable) ELSE "null"

\* The catch blocks of the utilities: get returns null, set and invalidate
\* return; none rethrows.
GetRoomAvailabilityResult(ran, reply) == IF ran THEN reply ELSE "null"
SetRoomAvailabilityThrows(ran) == IF ran THEN "void" ELSE "threw"
SetRoomAvailabilityResult(ran) == "void"
InvalidateRoomCacheResult(ran) == "void"

\* The keys client.scanIterator yields for each routine's patterns
ScannedKeys(store, routine, roomId) ==
  DOMAIN store \ DOMAIN (IF routine = "invalidate" THEN InvalidateRoomCache(store, roomId)
                         ELSE InvalidateRoomCacheOfBooking(store, roomId))

\* The calls tried: every utility on three keys of two rooms, verdicts of both
\* kinds, expiry after half a minute and after a minute.
CachedStays == {<<"R1", 2, 6>>, <<"R1", 6, 9>>, <<"R2", 2, 6>>}
CacheCall(call, r, checkIn, checkOut, v, ttl) ==
  [call |-> call, roomId |-> r, checkIn |-> checkIn, checkOut |-> checkOut,
   isAvailable |-> v, ttl |-> ttl, ready |-> FALSE, keys |-> 0, result |-> "pending"]
CacheCalls ==
  {CacheCall("set", s[1], s[2], s[3], v, ttl) : s \in CachedStays, v \in BOOLEAN, ttl \in {30, 60}}
  \cup {CacheCall("get", s[1], s[2], s[3], FALSE, 0) : s \in CachedStays}
  \cup {CacheCall(c, r, 0, 0, FALSE, 0) : c \in {"invalidate", "invalidateOfBooking"}, r \in RoomIds}

\* A call of setRoomAvailability, getRoomAvailability, redis.invalidateRoomCache
\* or BookingService.invalidateRoomCache up to its await: getClient() throws, and
\* the service's routine returns, when the connection is not active.
CallCache(c) ==
  /\ got.result # "pending"
  /\ got' = [c EXCEPT !.ready = connected]
  /\ UNCHANGED <<chk, candidate, reported, opVars, now, faults, connected, kv, cache, dbVars,
                 lockVars, callVars>>

\* The Redis command of the call (the scan and the del, for an invalidation), and
\* the return.
CacheReturns ==
  /\ got.result = "pending"
  /\ \E threw \in FaultChoices :
       /\ Injected(threw)
       /\ LET ran == got.ready /\ connected /\ ~threw
              k == CacheKey(got.roomId, got.checkIn, got.checkOut)
              text == JsonStringify([isAvailable |-> got.isAvailable, timestamp |-> now])
          IN  CASE got.call = "set" ->
                     /\ cache' = IF ran THEN SetEx(cache, k, text, got.ttl) ELSE cache
                     /\ got' = [got EXCEPT !.result = SetRoomAvailabilityResult(ran)]
                [] got.call = "get" ->
                     /\ cache' = cache
                     /\ got' = [got EXCEPT !.result = GetRoomAvailabilityResult(
                                                        ran, GetRoomAvailabilityReply(cache, k))]
                [] got.call = "invalidate" ->
                     /\ cache' = IF ran THEN InvalidateRoomCache(cache, got.roomId) ELSE cache
                     /\ got' = [got EXCEPT
                          !.result = InvalidateRoomCacheResult(ran),
                          !.keys = IF ran THEN Cardinality(ScannedKeys(cache, got.call, got.roomId))
                                   ELSE 0]
                [] got.call = "invalidateOfBooking" ->
                     /\ cache' = IF ran THEN InvalidateRoomCacheOfBooking(cache, got.roomId)
                                 ELSE cache
                     /\ got' = [got EXCEPT
                          !.result = "void",
                          !.keys = IF ran THEN Cardinality(ScannedKeys(cache, got.call, got.roomId))
                                   ELSE 0]
  /\ UNCHANGED <<chk, candidate, reported, opVars, now, connected, kv, dbVars, lockVars, callVars>>

CacheNext ==
  \/ \E c \in CacheCalls : CallCache(c)
  \/ CacheReturns
  \/ Tick
  \/ Disconnect
  \/ Reconnect

SpecCache == LockInit /\ [][CacheNext]_vars

\* ----------------------------------------------------- checkRoomAvailability
\* The closure checkRoomAvailability runs for one room of the rooms it found
\* (exclude 0: no filter.excludeBookingId, as from the routes).  The try/catch around each cache call keeps
\* isAvailable null, or goes on, when the call throws.
Caught(result, fallback) == IF result = "threw" THEN fallback ELSE result

\* `isAvailable = bookings.length === 0`
IsAvailableNever(conflicts) == FALSE
IsAvailable(conflicts) == conflicts = {}

\* roomsCollection.find({isActive: true}) and, for the room, the branch on
\* redis.isConnectionActive().
CheckRoomAvailability(r, checkIn, checkOut, exclude) ==
  /\ chk.stage \in {"none", "done", "failed"}
  /\ rooms[r].exists /\ rooms[r].isActive
  /\ chk' = [NoCheck EXCEPT !.stage = IF connected THEN "get" ELSE "find",
                            !.roomId = r, !.checkIn = checkIn, !.checkOut = checkOut,
                            !.exclude = exclude]
  /\ UNCHANGED <<got, candidate, reported, opVars, now, faults, connected, kv, cache, dbVars,
                 lockVars, callVars>>

\* redis.getRoomAvailability(roomId, dateRange): a verdict ends the closure when
\* it is true and sends it for the conflicting bookings when it is false.
CheckGet ==
  /\ chk.stage = "get"
  /\ \E threw \in FaultChoices :
       /\ Injected(threw)
       /\ LET k == CacheKey(chk.roomId, chk.checkIn, chk.checkOut)
              cached == Caught(GetRoomAvailabilityResult(connected /\ ~threw,
                                                         GetRoomAvailabilityReply(cache, k)),
                               "null")
          IN  chk' = [chk EXCEPT !.cached = cached,
                                 !.isAvailable = cached = "true",
                                 !.stage = CASE cached = "null" -> "find"
                                             [] cached = "false" -> "refetch"
                                             [] OTHER -> "done"]
  /\ UNCHANGED <<got, candidate, reported, opVars, now, connected, kv, cache, dbVars, lockVars,
                 callVars>>

\* bookingsCollection.find of the conflicts after a miss, which may throw
CheckFind ==
  /\ chk.stage = "find"
  /\ \E threw \in FaultChoices :
       /\ Injected(threw)
       /\ LET conflicts == AvailabilityConflicts(bookings, chk.roomId, chk.checkIn,
                                                 chk.checkOut, chk.exclude)
          IN  chk' = IF threw THEN [chk EXCEPT !.stage = "failed"]
                     ELSE [chk EXCEPT !.isAvailable = IsAvailable(conflicts),
                                      !.conflictingBookings = {b._id : b \in conflicts},
                                      !.stage = IF connected THEN "set" ELSE "done"]
  /\ UNCHANGED <<got, candidate, reported, opVars, now, connected, kv, cache, dbVars, lockVars,
                 callVars>>

\* redis.setRoomAvailability(roomId, dateRange, isAvailable, 300)
CheckSet ==
  /\ chk.stage = "set"
  /\ \E threw \in FaultChoices :
       /\ Injected(threw)
       /\ LET ran == connected /\ ~threw
              k == CacheKey(chk.roomId, chk.checkIn, chk.checkOut)
              text == JsonStringify([isAvailable |-> chk.isAvailable, timestamp |-> now])
          IN  /\ cache' = IF ran THEN SetEx(cache, k, text, 300) ELSE cache
              /\ chk' = [chk EXCEPT
                   !.stage = IF Caught(SetRoomAvailabilityResult(ran), "void") = "void"
                             THEN "done" ELSE "failed"]
  /\ UNCHANGED <<got, candidate, reported, opVars, now, connected, kv, dbVars, lockVars, callVars>>

\* bookingsCollection.find of the conflicts after a cached "not available"
CheckRefetch ==
  /\ chk.stage = "refetch"
  /\ \E threw \in FaultChoices :
       /\ Injected(threw)
       /\ LET conflicts == AvailabilityConflicts(bookings, chk.roomId, chk.checkIn,
                                                 chk.checkOut, chk.exclude)
          IN  chk' = IF threw THEN [chk EXCEPT !.stage = "failed"]
                     ELSE [chk EXCEPT !.conflictingBookings = {b._id : b \in conflicts},
                                      !.stage = "done"]
  /\ UNCHANGED <<got, candidate, reported, opVars, now, connected, kv, cache, dbVars, lockVars,
                 callVars>>

\* The service at work: availability queries of R1 for [4,8), a createBooking for
\* the same stay, and the confirmation and cancellation of a pending booking of
\* R1 for [2,6), with an empty cache to begin with.
ServiceInit ==
  /\ now = 2
  /\ faults = 0
  /\ connected = TRUE
  /\ kv = EmptyStore
  /\ cache = EmptyStore
  /\ rooms = [r \in RoomIds |-> Room(TRUE, 2, 100)]
  /\ bookings = {StoredBooking(2, "R1", 2, 6, "pending")}
  /\ IdleProcs
  /\ NoQuery

ServiceNext ==
  \/ CheckRoomAvailability("R1", 4, 8, 0)
  \/ CheckGet
  \/ CheckFind
  \/ CheckSet
  \/ CheckRefetch
  \/ pc[1] = "idle" /\ CallCreateBooking(1, Request("R1", 4, 8, 2))
  \/ Attempt(1) \/ Wake(1)
  \/ ValidateRoom(1) \/ ValidateConflicts(1) \/ FindRoom(1)
  \/ Insert(1) \/ Invalidate(1) \/ Release(1)
  \/ ConfirmBooking(2) \/ CancelBooking(2)
  \/ OpReturn
  \/ Tick
  \/ Disconnect
  \/ Reconnect

SpecService == ServiceInit /\ [][ServiceNext]_vars

\* The same with the cache utilities called on their own for R1 and [4,8), and
\* the Redis clock standing still.
DirectCalls ==
  {CacheCall("set", "R1", 4, 8, v, 300) : v \in BOOLEAN}
  \cup {CacheCall("get", "R1", 4, 8, FALSE, 0)}
  \cup {CacheCall(c, "R1", 0, 0, FALSE, 0) : c \in {"invalidate", "invalidateOfBooking"}}

ServiceCacheNext ==
  \/ CheckRoomAvailability("R1", 4, 8, 0)
  \/ CheckGet
  \/ CheckFind
  \/ CheckSet
  \/ CheckRefetch
  \/ pc[1] = "idle" /\ CallCreateBooking(1, Request("R1", 4, 8, 2))
  \/ Attempt(1) \/ Wake(1)
  \/ ValidateRoom(1) \/ ValidateConflicts(1) \/ FindRoom(1)
  \/ Insert(1) \/ Invalidate(1) \/ Release(1)
  \/ ConfirmBooking(2) \/ CancelBooking(2)
  \/ OpReturn
  \/ \E c \in DirectCalls : CallCache(c)
  \/ CacheReturns
  \/ Disconnect
  \/ Reconnect

SpecServiceCache == ServiceInit /\ [][ServiceCacheNext]_vars

\* checkRoomAvailability called with and without filter.excludeBookingId, for a
\* stay that one stored booking overlaps and for one that two overlap.
ExcludeNext ==
  \/ \E s \in {<<2, 6>>, <<4, 8>>}, exclude \in {0, 1, 2} :
       CheckRoomAvailability("R1", s[1], s[2], exclude)
  \/ CheckGet
  \/ CheckFind
  \/ CheckSet
  \/ CheckRefetch
  \/ Tick
  \/ Disconnect
  \/ Reconnect

ExcludeInit ==
  /\ now = 2
  /\ faults = 0
  /\ connected = TRUE
  /\ kv = EmptyStore
  /\ cache = EmptyStore
  /\ rooms = [r \in RoomIds |-> Room(TRUE, 2, 100)]
  /\ bookings \in TwoBookings
  /\ IdleProcs
  /\ NoQuery

SpecExclude == ExcludeInit /\ [][ExcludeNext]_vars

\* ================================================================== claims
Started(p) == pc[p] # "idle"
Done(p) == pc[p] = "done"
InCriticalSection(p) == pc[p] \in {"fn", "conflicts", "findRoom", "insert", "invalidate"}
Overlap(a, b) == a.checkInDate < b.checkOutDate /\ b.checkInDate < a.checkOutDate
SameStay(p, q) ==
  /\ req[p].roomId = req[q].roomId
  /\ req[p].checkInDate = req[q].checkInDate
  /\ req[p].checkOutDate = req[q].checkOutDate
ConflictSeen(p) ==
  \E i \in DOMAIN errors[p] : errors[p][i] = "Room is not available for the selected dates"
PersistedBy(p) == {b \in bookings : b._id = p}

\* C1: in every reachable state no two active bookings (pending or confirmed) of
\* the same room have intersecting half-open intervals [checkIn, checkOut).
C1_NoDoubleBooking ==
  \A a, b \in bookings :
    (a # b /\ a.roomId = b.roomId /\ a.status \in Active /\ b.status \in Active)
      => ~Overlap(a, b)

ValidInput(r) ==
  /\ r.checkInDate < r.checkOutDate
  /\ r.checkInDate >= now
  /\ rooms[r.roomId].exists /\ rooms[r.roomId].isActive
  /\ r.numberOfGuests >= 1 /\ r.numberOfGuests <= rooms[r.roomId].maxOccupancy
LostToTheOther(p) ==
  /\ PersistedBy(p) = {}
  /\ \/ outcome[p] = "invalid" /\ ConflictSeen(p)
     \/ outcome[p] = "lockFailed"

\* C2: of two createBooking calls with the same room and the same exact interval
\* and otherwise valid input, neither of which met a failing store, exactly one
\* succeeds and persists a booking; the other ends with the conflict error or
\* with the lock-acquisition error and persists nothing.
C2_ExactlyOneSucceeds ==
  \A p, q \in Procs :
    (/\ p # q /\ Done(p) /\ Done(q) /\ SameStay(p, q)
     /\ ValidInput(req[p]) /\ ValidInput(req[q])
     /\ faults = 0)
      => \/ outcome[p] = "ok" /\ PersistedBy(p) # {} /\ LostToTheOther(q)
         \/ outcome[q] = "ok" /\ PersistedBy(q) # {} /\ LostToTheOther(p)

\* C3: of the requests whose lock keys are identical at most one is inside the
\* validate-and-persist critical section, in every reachable state (also where a
\* holder stays in its critical section longer than the lock's TTL).
C3_MutualExclusion ==
  \A p, q \in Procs :
    (p # q /\ lockKey[p] = lockKey[q] /\ InCriticalSection(p)) => ~InCriticalSection(q)

\* A step in which request p calls client.set, and one in which it calls release.
SetStep(p) == setCalls'[p] = setCalls[p] + 1
ReleaseStep(p) == pc[p] = "release" /\ pc'[p] # "release"
Present(k) == k \in DOMAIN kv

\* C4: an acquire attempt returns true only against an absent key, and the key
\* then holds that caller's value with the configured expiry (so of any callers
\* meeting the absent key one gets true); an attempt against a present key
\* leaves its value and its expiry as they were and does not return true.
C4_AcquireRaceFree ==
  [][\A p \in Procs :
       SetStep(p) =>
         /\ Present(lockKey[p]) => kv' = kv /\ acquired'[p] # "true"
         /\ acquired'[p] = "true" =>
              /\ ~Present(lockKey[p])
              /\ kv' = Put(kv, lockKey[p],
                           [value |-> lockValue[p], ttl |-> TicksOf(options[p].ttl)])
         /\ \A q \in Procs \ {p} : acquired'[q] = acquired[q]]_vars
C4_Witness ==
  \E p, q \in Procs :
    /\ p # q /\ lockKey[p] = lockKey[q]
    /\ acquired[p] = "true" /\ lastSet[q] = "null" /\ acquired[q] # "true"
    /\ Present(lockKey[p]) /\ kv[lockKey[p]].value = lockValue[p]
    /\ kv[lockKey[p]].ttl < TicksOf(options[p].ttl)

\* C5: release deletes no key whose value differs from the caller's owner value:
\* when the key holds another owner's value (the caller's lock expired and the
\* key was acquired again) release returns false and leaves the store as it was.
C5_OwnershipSafeRelease ==
  [][\A p \in Procs :
       ReleaseStep(p) =>
         /\ \A k \in DOMAIN kv \ DOMAIN kv' : k = lockKey[p] /\ kv[k].value = lockValue[p]
         /\ (Present(lockKey[p]) /\ kv[lockKey[p]].value # lockValue[p])
              => kv' = kv /\ released'[p] = "false"]_vars
C5_Witness ==
  \E p, q \in Procs :
    /\ p # q /\ acquired[p] = "true" /\ acquired[q] = "true"
    /\ released[p] = "false" /\ releaseSaw[p] = lockValue[q]
    /\ Present(lockKey[p]) /\ kv[lockKey[p]].value = lockValue[q]

HeldBy(p) == acquired[p] = "true" /\ Present(lockKey[p]) /\ kv[lockKey[p]].value = lockValue[p]

\* C6: a key whose holder never calls release is eventually removed by its
\* expiry, and an acquire attempt that then meets the absent key returns true.
C6_NoPermanentDeadlock ==
  /\ \A p \in Procs : HeldBy(p) ~> ~Present(lockKey[p])
  /\ [][\A q \in Procs :
          (SetStep(q) /\ ~Present(lockKey[q]) /\ lastSet'[q] # "threw")
            => acquired'[q] = "true" /\ kv'[lockKey[q]].value = lockValue[q]]_vars
C6_Witness ==
  \E p, q \in Procs :
    /\ p # q /\ lockKey[p] = lockKey[q]
    /\ acquired[p] = "true" /\ pc[p] = "fn" /\ released[p] = "none"
    /\ acquired[q] = "true" /\ HeldBy(q)

Acquiring(p) == pc[p] \in {"idle", "attempt", "sleep"}

\* C7: fn runs only after acquire returned true; when acquire returned false or
\* threw, fn is not invoked, the caller observes a lock-acquisition error, and
\* no step of the acquisition changes the bookings or the cache.
C7_NoFnWithoutLock ==
  /\ [](\A p \in Procs :
          /\ (InCriticalSection(p) \/ pc[p] = "release" \/ fnResult[p] # "none")
               => acquired[p] = "true"
          /\ (Done(p) /\ acquired[p] # "true")
               => /\ acquired[p] \in {"false", "error"}
                  /\ outcome[p] = (IF acquired[p] = "false" THEN "lockFailed" ELSE "lockError")
                  /\ fnResult[p] = "none" /\ PersistedBy(p) = {})
  /\ [][\A p \in Procs :
          (Acquiring(p) /\ pc'[p] # pc[p]) => bookings' = bookings /\ cache' = cache]_vars
C7_Witness ==
  \E p, q \in Procs :
    /\ Done(p) /\ acquired[p] = "false" /\ outcome[p] = "lockFailed"
    /\ setCalls[p] = 6 /\ fnResult[p] = "none" /\ PersistedBy(p) = {}
    /\ InCriticalSection(q) /\ HeldBy(q) /\ lockKey[q] = lockKey[p]
    /\ bookings = {} /\ cache = InitialCache

\* C8: once fn was entered, release is called however fn ended (return,
\* validation failure, room not found, persistence error), and the caller
\* observes what fn returned or threw.
C8_ReleaseOnEveryExit ==
  \A p \in Procs :
    /\ (pc[p] = "release") => fnResult[p] # "none" /\ released[p] = "none"
    /\ (Done(p) /\ acquired[p] = "true")
         => /\ fnResult[p] \in {"ok", "invalid", "roomNotFound", "persistError"}
            /\ released[p] \in {"true", "false"}
            /\ outcome[p] = fnResult[p]
C8_Witness ==
  \E p, q \in Procs :
    /\ Done(p) /\ fnResult[p] = "persistError" /\ outcome[p] = "persistError"
    /\ released[p] = "true"
    /\ Done(q) /\ fnResult[q] = "roomNotFound" /\ outcome[q] = "roomNotFound"
    /\ released[q] \in {"true", "false"}

Configured(p) == Started(p) /\ "maxRetries" \in DOMAIN given[p]

\* C9: for every configured maxRetries >= 0, acquire makes at most
\* maxRetries + 1 client.set calls, sleeping between two calls, returns true
\* on the first call that answers OK and false when every call found the key held.
C9_BoundedAttempts ==
  \A p \in Procs :
    Configured(p) =>
      /\ setCalls[p] <= given[p].maxRetries + 1
      /\ acquired[p] = "true" => lastSet[p] = "OK"
      /\ acquired[p] = "false" => lastSet[p] = "null" /\ setCalls[p] = given[p].maxRetries + 1

\* C10: a client.set that throws before the last attempt is absorbed: acquire
\* sleeps, and the next attempt is one later in the same budget; a client.set
\* that throws on the last attempt makes acquire throw, not return false.
C10_StoreFailureInAcquire ==
  /\ [](\A p \in Procs : setCalls[p] <= options[p].maxRetries + 1)
  /\ [][\A p \in Procs :
          /\ (SetStep(p) /\ lastSet'[p] = "threw") =>
               IF attempt[p] < options[p].maxRetries
               THEN pc'[p] = "sleep" /\ acquired'[p] = "none" /\ outcome'[p] = "none"
               ELSE pc'[p] = "done" /\ acquired'[p] = "error" /\ outcome'[p] = "lockError"
          /\ (pc[p] = "sleep" /\ pc'[p] # "sleep") =>
               /\ pc'[p] = "attempt" /\ attempt'[p] = attempt[p] + 1
               /\ setCalls'[p] = setCalls[p] /\ setCalls[p] = attempt'[p]]_vars
C10_Witness ==
  \E p \in Procs :
    /\ Done(p) /\ acquired[p] = "error" /\ lastSet[p] = "threw"
    /\ setCalls[p] = options[p].maxRetries + 1

\* C11: release returns true exactly when its script found the caller's owner
\* value under the key, and the key is then absent; it returns false, and the
\* store is as it was, when the key had expired or holds another owner's value.
C11_ReleaseTrueIffDeleted ==
  [][\A p \in Procs :
       ReleaseStep(p) =>
         /\ released'[p] \in {"true", "false"}
         /\ released'[p] = "true" <=> releaseSaw'[p] = lockValue[p]
         /\ released'[p] = "true" <=> (Present(lockKey[p]) /\ lockKey[p] \notin DOMAIN kv')
         /\ released'[p] = "true" => kv' = Del(kv, {lockKey[p]})
         /\ released'[p] = "false" => kv' = kv]_vars
C11_Witness ==
  \E p, q \in Procs :
    /\ p # q /\ faults = 0
    /\ released[p] = "true" /\ releaseSaw[p] = lockValue[p] /\ ~Present(lockKey[p])
    /\ acquired[q] = "true" /\ released[q] = "false" /\ releaseSaw[q] = 0

\* A release step that finds Redis not connected, or whose eval throws.
ReleaseFails(p) == ReleaseStep(p) /\ (~connected \/ faults' # faults)

\* C12: release never raises: when Redis is not connected or the eval throws,
\* release returns false, withLock ends as fn did, and the key stays in the store
\* with its TTL.
C12_ReleaseNeverRaises ==
  /\ [](\A p \in Procs :
          released[p] \in {"none", "true", "false"} /\ outcome[p] # "releaseError")
  /\ [][\A p \in Procs :
          ReleaseFails(p) =>
            released'[p] = "false" /\ kv' = kv /\ outcome'[p] = fnResult[p]]_vars
C12_Witness ==
  \E p \in Procs :
    /\ Done(p) /\ acquired[p] = "true" /\ released[p] = "false"
    /\ HeldBy(p) /\ kv[lockKey[p]].ttl > 0 /\ outcome[p] = fnResult[p]

\* A step in which request p enters createBooking.
CreateStep(p) == pc[p] = "idle" /\ pc'[p] # "idle"

\* C13: a createBooking that finds Redis unreachable (the connection is not
\* active when acquire starts, or client.set throws on the last attempt) ends
\* with the error of acquire, having validated nothing and persisted nothing;
\* validation and the insert happen only with acquire having returned true.
C13_LockIsLoadBearing ==
  /\ [](\A p \in Procs :
          /\ acquired[p] = "error"
               => /\ Done(p) /\ outcome[p] = "lockError" /\ fnResult[p] = "none"
                  /\ errors[p] = <<>> /\ totalAmount[p] = 0 /\ PersistedBy(p) = {}
          /\ (InCriticalSection(p) \/ errors[p] # <<>> \/ PersistedBy(p) # {})
               => acquired[p] = "true" /\ lastSet[p] = "OK")
  /\ [][\A p \in Procs :
          (CreateStep(p) /\ ~connected)
            => /\ acquired'[p] = "error" /\ pc'[p] = "done"
               /\ bookings' = bookings /\ kv' = kv /\ cache' = cache]_vars
C13_Witness ==
  \E p, q \in Procs :
    /\ p # q /\ ~connected
    /\ Done(p) /\ acquired[p] = "error" /\ setCalls[p] = 0 /\ outcome[p] = "lockError"
    /\ ValidInput(req[p]) /\ PersistedBy(p) = {}
    /\ Done(q) /\ outcome[q] = "ok" /\ bookings = PersistedBy(q)

\* The half days of a stay: the half-open interval [checkIn, checkOut).
HalfDays(a) == a.checkInDate .. (a.checkOutDate - 1)
Touches(b, c) == b.checkOutDate = c.checkInDate \/ c.checkOutDate = b.checkInDate

\* C14: the conflict query of validateBooking, and that of checkRoomAvailability
\* without an excluded booking, report a stored booking exactly when it is of the
\* candidate's room, pending or confirmed, and existing.checkIn < candidate.checkOut
\* and existing.checkOut > candidate.checkIn, that is when the two half-open
\* intervals share a half day; a stay that only touches the candidate, and a
\* cancelled or completed booking, is never reported.
C14_ConflictIsHalfOpenOverlap ==
  (reported.by # "none" /\ reported.exclude = 0) =>
    /\ reported.conflicts \subseteq bookings
    /\ \A b \in bookings :
         /\ b \in reported.conflicts
              <=> /\ b.roomId = candidate.roomId
                  /\ b.status \in {"pending", "confirmed"}
                  /\ b.checkInDate < candidate.checkOutDate
                  /\ b.checkOutDate > candidate.checkInDate
         /\ b \in reported.conflicts => HalfDays(b) \cap HalfDays(candidate) # {}
         /\ Touches(b, candidate) => b \notin reported.conflicts
         /\ b.status \in {"cancelled", "completed"} => b \notin reported.conflicts
C14_Witness ==
  /\ reported.by = "validateBooking"
  /\ candidate = Request("R1", 6, 9, 1)
  /\ bookings = {StoredBooking(1, "R1", 2, 6, "pending"), StoredBooking(2, "R1", 4, 8, "confirmed")}
  /\ reported.conflicts = {StoredBooking(2, "R1", 4, 8, "confirmed")}

Range(seq) == {seq[i] : i \in DOMAIN seq}
NoRepeat(seq) == Cardinality(Range(seq)) = Len(seq)

\* The rules a request breaks against a room document, and against the bookings.
BrokenRules(r, room, today) ==
  {m \in {"Check-in date must be before check-out date",
          "Check-in date cannot be in the past",
          "Number of guests must be greater than 0",
          "Room not found",
          "Room is not available for booking",
          "Number of guests exceeds room capacity"} :
     \/ m = "Check-in date must be before check-out date" /\ ~(r.checkInDate < r.checkOutDate)
     \/ m = "Check-in date cannot be in the past" /\ ~(r.checkInDate >= today)
     \/ m = "Number of guests must be greater than 0" /\ ~(1 <= r.numberOfGuests)
     \/ m = "Room not found" /\ ~room.exists
     \/ m = "Room is not available for booking" /\ room.exists /\ ~room.isActive
     \/ m = "Number of guests exceeds room capacity"
          /\ room.exists /\ ~(r.numberOfGuests <= room.maxOccupancy)}
BrokenByOverlap(r, docs) ==
  IF \E b \in docs : b.roomId = r.roomId /\ b.status \in Active /\ Overlap(b, r)
  THEN {"Room is not available for the selected dates"} ELSE {}

\* C15: inside the critical section the validation collects one message for
\* every rule the request breaks (dates in order, check-in not in the past, at
\* least one guest and no more than the room holds, the room exists and is
\* active, no active booking of the room overlaps); the request goes on to the
\* insert only with no message collected, so a booking is persisted only for a
\* request that passed every rule when it was validated.
C15_PersistOnlyIfValid ==
  /\ [](\A p \in Procs :
          (pc[p] \in {"findRoom", "insert", "invalidate"} \/ PersistedBy(p) # {})
            => /\ errors[p] = <<>> /\ acquired[p] = "true"
               /\ BrokenRules(req[p], Room(TRUE, req[p].numberOfGuests, 0), now) = {})
  /\ [][\A p \in Procs :
          /\ (pc[p] = "fn" /\ pc'[p] # "fn")
               => /\ Range(errors'[p]) = BrokenRules(req[p], rooms[req[p].roomId], now)
                  /\ NoRepeat(errors'[p])
          /\ (pc[p] = "conflicts" /\ pc'[p] # "conflicts")
               => /\ Range(errors'[p]) = Range(errors[p]) \cup BrokenByOverlap(req[p], bookings)
                  /\ NoRepeat(errors'[p])
                  /\ IF errors'[p] = <<>>
                     THEN pc'[p] = "findRoom"
                     ELSE pc'[p] = "release" /\ fnResult'[p] = "invalid"
          /\ PersistedBy(p)' # PersistedBy(p) => pc[p] = "insert"]_vars
C15_Witness ==
  \E p, q \in Procs :
    /\ p # q
    /\ Done(p) /\ outcome[p] = "invalid" /\ PersistedBy(p) = {}
    /\ Range(errors[p]) = {"Check-in date must be before check-out date",
                           "Check-in date cannot be in the past",
                           "Number of guests must be greater than 0"}
    /\ Done(q) /\ outcome[q] = "ok" /\ PersistedBy(q) # {}

Refused(p) == Done(p) /\ outcome[p] = "validationFailed"

\* C16: a body whose stay is longer than 30 nights (a started day counts as a
\* night) is refused by the schema of POST /bookings before createBooking is
\* called, so no booking persisted through the route has
\* ceil((checkOut - checkIn) / 1 day) > 30.
C16_AtMostThirtyNights ==
  /\ \A b \in bookings : Ceil(b.checkOutDate - b.checkInDate, DayUnits) <= 30
  /\ \A p \in Procs :
       (Started(p) /\ Ceil(req[p].checkOutDate - req[p].checkInDate, DayUnits) > 30)
         => Refused(p) /\ acquired[p] = "none" /\ PersistedBy(p) = {}
C16_Witness ==
  \E p, q \in Procs :
    /\ req[p] = Request("R1", 4, 65, 1) /\ Refused(p) /\ PersistedBy(p) = {}
    /\ req[q] = Request("R1", 4, 64, 1) /\ Done(q) /\ outcome[q] = "ok"
    /\ \E b \in PersistedBy(q) : Ceil(b.checkOutDate - b.checkInDate, DayUnits) = 30

FailedValidation(p) == fnResult[p] \in {"invalid", "roomNotFound"}

\* C17: a createBooking whose validation fails inside the critical section (a
\* broken rule, a conflict, a room that is not found) writes nothing: none of
\* its steps changes the bookings or the cache, it persists no booking, release
\* is called and, unless Redis fails at that moment, the key no longer holds the
\* request's value, and the caller observes the error.
C17_AbortWithoutWriting ==
  /\ [](\A p \in Procs :
          /\ (errors[p] # <<>> /\ pc[p] \notin {"fn", "conflicts"}) => fnResult[p] = "invalid"
          /\ FailedValidation(p)
               => /\ PersistedBy(p) = {} /\ totalAmount[p] = 0
                  /\ pc[p] \in {"release", "done"}
                  /\ Done(p) => outcome[p] = fnResult[p] /\ released[p] \in {"true", "false"})
  /\ [][\A p \in Procs :
          /\ (pc'[p] # pc[p] /\ pc[p] \notin {"insert", "invalidate"})
               => bookings' = bookings /\ cache' = cache
          /\ (ReleaseStep(p) /\ ~ReleaseFails(p)) => ~HeldBy(p)']_vars
C17_Witness ==
  \E p, q \in Procs :
    /\ p # q
    /\ Done(p) /\ outcome[p] = "invalid" /\ ConflictSeen(p) /\ PersistedBy(p) = {}
    /\ released[p] = "true" /\ ~Present(lockKey[p])
    /\ bookings = PersistedBy(q) /\ bookings # {} /\ cache = InitialCache

\* C18: a createBooking that succeeds has added exactly one booking to the
\* collection, pending, for the requesting user and the requested room, dates
\* and guests, and returns that booking; the step that adds it leaves every
\* booking already stored as it was.
C18_SuccessAddsOnePending ==
  /\ [](\A p \in Procs :
          /\ Cardinality(PersistedBy(p)) <= 1
          /\ outcome[p] = "ok"
               => /\ PersistedBy(p) = {returned[p]}
                  /\ returned[p].status = "pending" /\ returned[p].userId = p
                  /\ returned[p].roomId = req[p].roomId
                  /\ returned[p].checkInDate = req[p].checkInDate
                  /\ returned[p].checkOutDate = req[p].checkOutDate
                  /\ returned[p].numberOfGuests = req[p].numberOfGuests
          /\ fnResult[p] # "ok" => returned[p] = NoBooking)
  /\ [][/\ bookings \subseteq bookings'
        /\ Cardinality(bookings') <= Cardinality(bookings) + 1
        /\ \A b \in bookings' \ bookings :
             b.status = "pending" /\ pc[b._id] = "insert" /\ pc'[b._id] = "invalidate"]_vars
C18_Witness ==
  \E p, q \in Procs :
    /\ p # q /\ outcome[p] = "ok" /\ outcome[q] = "ok"
    /\ bookings = {returned[p], returned[q]} /\ ~Overlap(returned[p], returned[q])
    /\ req[p] = Request("R1", 2, 6, 1) /\ req[q] = Request("R1", 6, 9, 1)

\* The nights of a stay: the least number of whole days that cover it.
NightsOf(r) ==
  CHOOSE n \in 0..40 :
    /\ n * DayUnits >= r.checkOutDate - r.checkInDate
    /\ (n - 1) * DayUnits < r.checkOutDate - r.checkInDate

\* C19: the total amount of every booking created is the base price of the room,
\* as read for the pricing, times the nights of the stay, a started day counting
\* as a night (a stay of a day and a half at 100 costs 200).
C19_TotalAmount ==
  /\ [](\A b \in bookings :
          /\ b.totalAmount = totalAmount[b._id]
          /\ b.totalAmount = InitialRooms[b.roomId].basePrice * NightsOf(b))
  /\ [][\A p \in Procs :
          (pc[p] = "findRoom" /\ pc'[p] = "insert")
            => totalAmount'[p] = rooms[req[p].roomId].basePrice * NightsOf(req[p])]_vars
C19_Witness ==
  \E b \in bookings :
    /\ b.checkInDate = 6 /\ b.checkOutDate = 9
    /\ b.totalAmount = 200 /\ returned[b._id] = b /\ outcome[b._id] = "ok"

\* How far a createBooking has come: before the call, acquiring the lock,
\* validating, pricing, inserting, invalidating the cache, releasing, returned.
Stage(p) ==
  CASE pc[p] = "idle" -> 0
    [] pc[p] \in {"attempt", "sleep"} -> 1
    [] pc[p] \in {"fn", "conflicts"} -> 2
    [] pc[p] = "findRoom" -> 3
    [] pc[p] = "insert" -> 4
    [] pc[p] = "invalidate" -> 5
    [] pc[p] = "release" -> 6
    [] pc[p] = "done" -> 7

\* C20: every createBooking goes through lock acquisition, validation, insert,
\* cache invalidation and release in that order: the booking is inserted only
\* with the lock acquired and the validation passed, the room's cache entries
\* are removed only after the insert and before release is called, and release
\* comes last.
C20_StepOrder ==
  /\ [](\A p \in Procs :
          /\ Stage(p) >= 2 /\ Stage(p) <= 6 => acquired[p] = "true"
          /\ Stage(p) >= 3 /\ Stage(p) <= 5 => errors[p] = <<>> /\ released[p] = "none"
          /\ PersistedBy(p) # {} <=> (Stage(p) = 5 \/ fnResult[p] = "ok")
          /\ fnResult[p] = "ok" => Stage(p) >= 6 /\ PersistedBy(p) # {}
          /\ released[p] # "none" => Stage(p) = 7)
  /\ [][/\ \A p \in Procs : Stage(p)' >= Stage(p)
        /\ \A p \in Procs : PersistedBy(p)' # PersistedBy(p) => Stage(p) = 4 /\ Stage(p)' = 5
        /\ (cache' # cache /\ cache' # Aged(cache))
             => \E p \in Procs :
                  /\ Stage(p) = 5 /\ Stage(p)' = 6 /\ PersistedBy(p) # {}
                  /\ released[p] = "none"
                  /\ cache' = InvalidateRoomCache(cache, req[p].roomId)]_vars
C20_Witness ==
  \E p \in Procs :
    /\ pc[p] = "release" /\ fnResult[p] = "ok" /\ PersistedBy(p) # {}
    /\ faults = 0 /\ cache = EmptyStore
    /\ HeldBy(p) /\ kv[lockKey[p]].ttl = TicksOf(60)

\* A step in which a confirm, cancel or update call for booking id does its
\* findOneAndUpdate, and the step in which such a call returns or throws.
CallStep(kind, id) ==
  /\ op = NoOp
  /\ \/ op'.kind = kind /\ op'.id = id
     \/ op' = NoOp /\ opResult' # opResult /\ opResult'.kind = kind /\ opResult'.id = id
StatusOf(docs, id) == {b.status : b \in FindById(docs, id)}

\* C21: confirmBooking sets a booking to confirmed only when it is pending, and
\* then changes nothing else; for a booking in any other status, or for an id
\* that is not stored, it throws and leaves the bookings and the cache as they were.
C21_ConfirmOnlyPending ==
  [][\A id \in BookingIds :
       CallStep("confirm", id) =>
         IF StatusOf(bookings, id) = {"pending"}
         THEN /\ StatusOf(bookings', id) = {"confirmed"}
              /\ \A b \in bookings : b._id # id => b \in bookings'
              /\ Cardinality(bookings') = Cardinality(bookings)
              /\ op'.kind = "confirm"
         ELSE /\ bookings' = bookings /\ cache' = cache
              /\ op' = NoOp /\ opResult'.result = "notFound"]_vars
C21_Witness ==
  /\ opResult = [kind |-> "confirm", id |-> 1, result |-> "notFound"]
  /\ StatusOf(bookings, 1) = {"cancelled"}
  /\ StatusOf(bookings, 2) = {"confirmed"}
  /\ cache # EmptyStore

\* The status changes allowed, as <<from, to>>.
Transitions ==
  {<<"pending", "confirmed">>, <<"pending", "cancelled">>,
   <<"confirmed", "cancelled">>, <<"confirmed", "completed">>}

\* C22: the status of a booking only goes from pending to confirmed or cancelled
\* and from confirmed to cancelled or completed, so a cancelled or completed
\* booking keeps its status whatever confirmBooking, cancelBooking and
\* updateBooking calls follow, and cancelBooking changes the status only of a
\* booking that is pending or confirmed.
C22_StatusTransitions ==
  [][\A id \in BookingIds :
       \A from \in StatusOf(bookings, id), to \in StatusOf(bookings', id) :
         from # to => <<from, to>> \in Transitions]_vars

RoomEntries(store, roomId) ==
  {k \in DOMAIN store : k[1] = "room" /\ k[2] = "availability" /\ k[3] = roomId}
StatusOrStayChanged(id) ==
  \E a \in FindById(bookings, id), b \in FindById(bookings', id) :
    a.status # b.status \/ a.checkInDate # b.checkInDate \/ a.checkOutDate # b.checkOutDate

\* C23: when cancelBooking, confirmBooking or an updateBooking that changed the
\* status or a date of a booking returns, and Redis was reachable for it, no
\* cache entry of the booking's room is left.
C23_ChangeInvalidates ==
  [][/\ (op # NoOp /\ op' = NoOp /\ connected /\ faults' = faults)
          => RoomEntries(cache', op.roomId) = {}
     /\ \A id \in BookingIds :
          (op = NoOp /\ op' = NoOp /\ connected /\ StatusOrStayChanged(id))
            => \A b \in FindById(bookings', id) : RoomEntries(cache', b.roomId) = {}]_vars

Returned(call) == got.result = "pending" /\ got.call = call /\ got'.result # "pending"
Reached == got.ready /\ connected /\ faults' = faults
KeyOf(c) == CacheKey(c.roomId, c.checkIn, c.checkOut)
TicksLeft(store, k) == IF k \in DOMAIN store THEN store[k].ttl ELSE 0
Removes(k) ==
  (Returned("invalidate") \/ Returned("invalidateOfBooking")) /\ got.roomId = k[3]
TimePasses == got' = got /\ connected' = connected

\* C24: a set of (room, stay) to v with a TTL that reaches Redis leaves get
\* returning v for exactly the ticks of the TTL: a get that reaches Redis
\* returns what the entry holds and null when there is none; an entry keeps its
\* verdict, loses one tick with every tick of the clock and is gone when the
\* last one has passed, unless a later set or an invalidation of its room
\* intervenes; and an entry comes to exist only by a set of its key.
C24_RoundTripUntilExpiry ==
  [][\A s \in CachedStays :
       LET k == CacheKey(s[1], s[2], s[3])
       IN  /\ (Returned("set") /\ Reached /\ KeyOf(got) = k)
                => /\ GetRoomAvailabilityReply(cache', k) = Verdict(got.isAvailable)
                   /\ TicksLeft(cache', k) = TicksOf(got.ttl)
           /\ (Returned("get") /\ KeyOf(got) = k)
                => got'.result = IF Reached THEN GetRoomAvailabilityReply(cache, k) ELSE "null"
           /\ (k \in DOMAIN cache /\ ~(Returned("set") /\ KeyOf(got) = k) /\ ~Removes(k))
                => /\ TicksLeft(cache', k) = TicksLeft(cache, k) - (IF TimePasses THEN 1 ELSE 0)
                   /\ GetRoomAvailabilityReply(cache', k) =
                        IF TicksLeft(cache', k) = 0 THEN "null"
                        ELSE GetRoomAvailabilityReply(cache, k)
           /\ (k \notin DOMAIN cache /\ k \in DOMAIN cache')
                => Returned("set") /\ Reached /\ KeyOf(got) = k]_vars
C24_Witness ==
  /\ got.call = "get" /\ got.result = "false" /\ KeyOf(got) = CacheKey("R1", 2, 6)
  /\ TicksLeft(cache, CacheKey("R1", 2, 6)) = TicksOf(60) - 1
  /\ CacheKey("R1", 6, 9) \notin DOMAIN cache

\* C25: when an invalidation of a room, by either routine, has reached Redis and
\* returned, get returns null for every (room, stay) of that room.
C25_InvalidatedIsUnknown ==
  [][(Removes(<<"room", "availability", got.roomId>>) /\ Reached)
       => \A s \in CachedStays :
            s[1] = got.roomId
              => GetRoomAvailabilityReply(cache', CacheKey(s[1], s[2], s[3])) = "null"]_vars
C25_Witness ==
  /\ got.call = "invalidate" /\ got.result = "void" /\ got.roomId = "R1" /\ got.keys = 2
  /\ RoomEntries(cache, "R1") = {} /\ RoomEntries(cache, "R2") # {}

\* C26: when the cache invalidation of a booking change (create, update, cancel,
\* confirm) has reached Redis and the call returns, no entry is left under
\* room:availability:search:*.
C26_SearchNamespaceCleared ==
  [][(op # NoOp /\ op' = NoOp /\ connected /\ faults' = faults)
       => \A k \in DOMAIN cache' : k # SearchKey("all")]_vars

Failing == ~connected \/ faults' # faults
ChkKey == CacheKey(chk.roomId, chk.checkIn, chk.checkOut)
Free(docs, roomId, checkIn, checkOut) ==
  \A b \in docs :
    (b.roomId = roomId /\ b.status \in Active)
      => ~Overlap(b, [checkInDate |-> checkIn, checkOutDate |-> checkOut])

\* C27: a cache command that fails or finds Redis unreachable is absorbed: a get
\* returns null, a set and an invalidation return normally and leave the cache
\* as it was; checkRoomAvailability goes on to the store after a failed get and
\* ends normally after a failed set, and fails only when a find of the bookings
\* throws; cancelBooking and confirmBooking return normally when their
\* invalidation fails; a createBooking whose insert succeeded returns the
\* booking it inserted when its invalidation fails.
C27_CacheFailuresAbsorbed ==
  [][/\ \A c \in {"set", "get", "invalidate", "invalidateOfBooking"} :
          (Returned(c) /\ ~Reached)
            => got'.result = (IF c = "get" THEN "null" ELSE "void") /\ cache' = cache
     /\ (chk.stage = "get" /\ chk' # chk /\ Failing)
          => chk'.cached = "null" /\ chk'.stage = "find"
     /\ (chk.stage = "set" /\ chk' # chk /\ Failing)
          => chk' = [chk EXCEPT !.stage = "done"] /\ cache' = cache
     /\ (chk.stage # "failed" /\ chk'.stage = "failed")
          => chk.stage \in {"find", "refetch"} /\ faults' # faults
     /\ (op # NoOp /\ op' = NoOp /\ Failing)
          => opResult' = [kind |-> op.kind, id |-> op.id, result |-> "ok"] /\ cache' = cache
     /\ \A p \in Procs :
          (pc[p] = "invalidate" /\ pc'[p] # "invalidate" /\ Failing)
            => /\ fnResult'[p] = "ok" /\ pc'[p] = "release"
               /\ returned'[p] \in bookings /\ returned'[p]._id = p]_vars
C27_Witness ==
  /\ got.call = "get" /\ got.result = "null" /\ ~got.ready /\ ~connected
  /\ KeyOf(got) \in DOMAIN cache
  /\ op = NoOp /\ opResult.result = "ok"
  /\ fnResult[1] = "ok" /\ returned[1] \in bookings
  /\ chk.stage = "done"

\* C28: a checkRoomAvailability that gets no verdict from the cache (no entry, a
\* failed get, Redis not connected) goes to the bookings: its verdict is whether
\* no active booking of the room overlaps the stay, and when Redis is connected
\* it writes that verdict under the key of (room, stay) with a TTL of 300 s.
C28_CacheAsideOnMiss ==
  [][/\ (chk.stage \in {"none", "done", "failed"} /\ chk'.stage \notin {"none", "done", "failed"})
          => chk'.stage = IF connected THEN "get" ELSE "find"
     /\ (chk.stage = "get" /\ chk' # chk /\ (Failing \/ ChkKey \notin DOMAIN cache))
          => chk'.stage = "find"
     /\ (chk.stage = "find" /\ chk'.stage \notin {"find", "failed"})
          => /\ chk.cached = "null"
             /\ chk'.isAvailable = Free(bookings, chk.roomId, chk.checkIn, chk.checkOut)
             /\ chk'.stage = IF connected THEN "set" ELSE "done"
     /\ (chk.stage = "set" /\ chk' # chk)
          => /\ chk' = [chk EXCEPT !.stage = "done"]
             /\ ~Failing => /\ GetRoomAvailabilityReply(cache', ChkKey) = Verdict(chk.isAvailable)
                            /\ TicksLeft(cache', ChkKey) = TicksOf(300)]_vars
C28_Witness ==
  /\ chk.stage = "done" /\ chk.cached = "null" /\ chk.isAvailable
  /\ GetRoomAvailabilityReply(cache, ChkKey) = "true"
  /\ TicksLeft(cache, ChkKey) = TicksOf(300)
  /\ \E b \in bookings : b._id = 2 /\ b.status = "cancelled"

Quiet == op = NoOp /\ \A p \in Procs : pc[p] \in {"idle", "done"}

\* C29: while no createBooking, updateBooking, cancelBooking or confirmBooking is
\* in progress, every cached verdict of (room, stay) says whether no active
\* booking of the room overlaps the stay.
C29_CacheAgreesWithStore ==
  Quiet => \A r \in RoomIds, s \in Stays :
             LET k == CacheKey(r, s[1], s[2])
             IN  k \in DOMAIN cache
                   => GetRoomAvailabilityReply(cache, k) = Verdict(Free(bookings, r, s[1], s[2]))

Accepts(r, room, docs, today) ==
  BrokenRules(r, room, today) = {} /\ Free(docs, r.roomId, r.checkInDate, r.checkOutDate)

\* C30: whatever the cache holds, createBooking goes on to the insert exactly
\* when the request breaks no rule against the room document and no active
\* booking in the store overlaps it, the insert adds exactly the pending booking
\* of the request, and no step of createBooking adds or changes a cache entry.
C30_CacheNeverDecides ==
  [][\A p \in Procs :
       /\ (pc[p] = "conflicts" /\ pc'[p] # "conflicts")
            => (pc'[p] = "findRoom" <=> Accepts(req[p], rooms[req[p].roomId], bookings, now))
       /\ (pc[p] = "insert" /\ pc'[p] # "insert" /\ faults' = faults)
            => bookings' = bookings \cup
                 {[StoredBooking(p, req[p].roomId, req[p].checkInDate, req[p].checkOutDate,
                                 "pending") EXCEPT !.numberOfGuests = req[p].numberOfGuests]}
       /\ (PersistedBy(p) = {} /\ PersistedBy(p)' # {}) => pc[p] = "insert"
       /\ pc'[p] # pc[p] => \A k \in DOMAIN cache' : k \in DOMAIN cache /\ cache'[k] = cache[k]]_vars
C30_Witness ==
  /\ pc[1] = "release" /\ fnResult[1] = "invalid"
  /\ errors[1] = <<"Room is not available for the selected dates">>
  /\ GetRoomAvailabilityReply(cache, CacheKey("R1", 4, 8)) = "true"
  /\ PersistedBy(1) = {}

C32_RetryRevalidates ==
  /\ [][\A p, q \in Procs :
          (/\ p # q /\ pc[p] = "conflicts" /\ pc'[p] # "conflicts" /\ setCalls[p] > 1
           /\ Done(q) /\ req[p].roomId = req[q].roomId /\ Overlap(req[p], req[q])
           /\ \E b \in PersistedBy(q) : b.status = "pending")
            => /\ pc'[p] = "release" /\ fnResult'[p] = "invalid"
               /\ "Room is not available for the selected dates" \in Range(errors'[p])
               /\ PersistedBy(p)' = {}]_vars
  /\ [](\A p \in Procs :
          (pc[p] \in {"fn", "conflicts"} \/ PersistedBy(p) # {}) => acquired[p] = "true")
C32_Witness ==
  \E p, q \in Procs :
    /\ p # q /\ SameStay(p, q)
    /\ Done(q) /\ outcome[q] = "ok" /\ released[q] = "true" /\ PersistedBy(q) # {}
    /\ setCalls[p] > 1 /\ lastSet[p] = "OK" /\ acquired[p] = "true"
    /\ Done(p) /\ outcome[p] = "invalid" /\ PersistedBy(p) = {}
    /\ errors[p] = <<"Room is not available for the selected dates">>
    /\ faults = 0

FreeBut(docs, roomId, checkIn, checkOut, exclude) ==
  Free({b \in docs : b._id # exclude}, roomId, checkIn, checkOut)

\* C33: when checkRoomAvailability ends for a room, a stay and an
\* excludeBookingId, isAvailable says whether no active booking of the room
\* other than the excluded one overlaps the stay.
C33_VerdictHonoursExclusion ==
  [][(chk.stage # "done" /\ chk'.stage = "done")
       => chk'.isAvailable =
            FreeBut(bookings, chk.roomId, chk.checkIn, chk.checkOut, chk.exclude)]_vars

\* C34: the message answered to a request that failed to acquire its lock is the
\* one any other request would be answered: it does not vary with the lock key.
C34_GenericLockFailure ==
  \A p \in Procs :
    outcome[p] = "lockFailed"
      => \A r \in Requests :
           LockFailedResponse(p).message =
             ErrorHandler(LockFailedError(RedisLockKey(
               BookingLockName(r.roomId, r.checkInDate, r.checkOutDate)))).message

NoActiveOverlap(docs) ==
  \A a, b \in docs :
    (a._id # b._id /\ a.roomId = b.roomId /\ a.status \in Active /\ b.status \in Active)
      => ~Overlap(a, b)

\* C35: an updateBooking of a store in which no two active bookings of a room
\* overlap leaves a store in which none do.
C35_UpdateKeepsNoOverlap ==
  [][\A id \in BookingIds :
       (CallStep("update", id) /\ NoActiveOverlap(bookings)) => NoActiveOverlap(bookings')]_vars

\* C36: in the result of checkRoomAvailability for a room, isAvailable is false
\* exactly when conflictingBookings is not empty.
C36_VerdictMatchesConflicts ==
  chk.stage = "done" => (chk.isAvailable <=> chk.conflictingBookings = {})

\* C37: a request that acquired its lock leaves its critical section only through
\* release, on a return as on a throw; when the release script reaches Redis
\* while the key still holds the request's value, the key is gone when withLock
\* ends; and a first SET NX that reaches Redis and finds no key acquires.
C37_NoLockLeftBehind ==
  [][\A p \in Procs :
       /\ (pc[p] # "done" /\ pc'[p] = "done" /\ acquired[p] = "true") => ReleaseStep(p)
       /\ (ReleaseStep(p) /\ connected /\ faults' = faults /\ HeldBy(p))
            => ~Present(lockKey[p])' /\ released'[p] = "true"
       /\ (SetStep(p) /\ setCalls[p] = 0 /\ connected /\ faults' = faults
           /\ ~Present(lockKey[p]))
            => acquired'[p] = "true" /\ lastSet'[p] = "OK"]_vars
C37_Witness ==
  \E p, q \in Procs :
    /\ p # q /\ SameStay(p, q) /\ faults = 0
    /\ Done(p) /\ outcome[p] = "ok" /\ released[p] = "true" /\ releaseSaw[p] = lockValue[p]
    /\ setCalls[q] = 1 /\ lastSet[q] = "OK" /\ HeldBy(q) /\ InCriticalSection(q)

\* C38: an invalidation of a room, by either routine, leaves every entry of every
\* other room as it was: present, with its verdict and its remaining TTL.
C38_OtherRoomsUntouched ==
  [][(Returned("invalidate") \/ Returned("invalidateOfBooking"))
       => \A s \in CachedStays :
            LET k == CacheKey(s[1], s[2], s[3])
            IN  (s[1] # got.roomId /\ k \in DOMAIN cache)
                  => /\ k \in DOMAIN cache'
                     /\ cache'[k] = cache[k]
                     /\ GetRoomAvailabilityReply(cache', k) = GetRoomAvailabilityReply(cache, k)]_vars
C38_Witness ==
  /\ got.call = "invalidateOfBooking" /\ got.result = "void" /\ got.roomId = "R1" /\ got.keys = 2
  /\ RoomEntries(cache, "R1") = {}
  /\ GetRoomAvailabilityReply(cache, CacheKey("R2", 2, 6)) = "false"

Missing(id) == \A b \in bookings : b._id # id

\* C39: a cancelBooking, confirmBooking or updateBooking of an id that no stored
\* booking has ends with the not-found error at its findOneAndUpdate: the
\* bookings and the cache stay as they were and no invalidation is left to run.
C39_MissingIdChangesNothing ==
  [][\A id \in BookingIds, kind \in {"cancel", "confirm", "update"} :
       (CallStep(kind, id) /\ Missing(id))
         => /\ opResult' = [kind |-> kind, id |-> id, result |-> "notFound"]
            /\ op' = NoOp
            /\ bookings' = bookings /\ cache' = cache]_vars
C39_Witness ==
  /\ opResult = [kind |-> "cancel", id |-> 3, result |-> "notFound"]
  /\ op = NoOp /\ Missing(3)
  /\ bookings \in TwoBookings /\ cache = FilledCache

====
